---------------------------- MODULE Spec2Model ----------------------------
(***************************************************************************)
(* A model of handparser/ftp.py: FullTiltHand, the Full Tilt Poker hand    *)
(* history parser, and of the Suit value type that tests/test_suit.py      *)
(* exercises.                                                              *)
(*                                                                         *)
(* A hand text is modelled after segmentation: the list of fragments that  *)
(* _split_pattern.split(raw) returns.  A fragment is a record whose field  *)
(* k says which of the parser's patterns the line matches, and whose other *)
(* fields are the groups that pattern captures, as the strings captured:   *)
(*   [k |-> "empty"]     the empty string (a section boundary)             *)
(*   [k |-> "text"]      a line that matches none of the patterns (street  *)
(*                       markers, action lines, the SUMMARY marker)        *)
(*   [k |-> "header"]    a line _header_pattern matches                    *)
(*   [k |-> "seat"]      a line _seat_pattern matches                      *)
(*   [k |-> "button"]    a line _button_pattern matches                    *)
(*   [k |-> "dealt"]     a line _hole_cards_pattern matches                *)
(*   [k |-> "board"]     a line _street_pattern matches                    *)
(* Python values: an attribute that was never assigned is Unset, None is   *)
(* None, any other value x is Val(x).                                      *)
(***************************************************************************)
EXTENDS Integers, Sequences, FiniteSets, TLC

VARIABLES
    splitted,           \* self._splitted
    sections,           \* self._sections (0-based indices, as in the code)
    pc,                 \* the step parse() is about to run, "done" or "failed"
    err,                \* the exception that ended the parse, or "none"
    game_type, header, header_parsed,
    max_players, players, button_seat, button,
    hero, hero_seat, hero_hole_cards,
    preflop_actions,
    street_cards, street_actions, street_pot, street_num_players,
    suit_in, suit_out   \* the Suit constructions last made, and what they gave

vars == <<splitted, sections, pc, err, game_type, header, header_parsed,
          max_players, players, button_seat, button,
          hero, hero_seat, hero_hole_cards, preflop_actions,
          street_cards, street_actions, street_pot, street_num_players,
          suit_in, suit_out>>

parser_vars == <<splitted, sections, pc, err, game_type, header, header_parsed,
          max_players, players, button_seat, button,
          hero, hero_seat, hero_hole_cards, preflop_actions,
          street_cards, street_actions, street_pot, street_num_players>>

-----------------------------------------------------------------------------
(* Python values *)

Unset == [tag |-> "unset"]
None == [tag |-> "None"]
Val(x) == [tag |-> "val", v |-> x]
IsVal(x) == x.tag = "val"

StreetNames == {"flop", "turn", "river"}

\* street.upper()
Upper(street) ==
    CASE street = "flop" -> "FLOP"
      [] street = "turn" -> "TURN"
      [] street = "river" -> "RIVER"

-----------------------------------------------------------------------------
(* Fragments *)

Empty == [k |-> "empty"]
Text(t) == [k |-> "text", text |-> t]
SeatLine(d, name, stack) == [k |-> "seat", seat |-> d, name |-> name, stack |-> stack]
ButtonLine(d) == [k |-> "button", seat |-> d]
DealtLine(name, c1, c2) == [k |-> "dealt", name |-> name, c1 |-> c1, c2 |-> c2]
BoardLine(cards, pot, n) == [k |-> "board", cards |-> cards, pot |-> pot, n |-> n]
HeaderLine(game) ==
    [k |-> "header", ident |-> "33286946295",
     tournament_name |-> "MiniFTOPS Main Event", tournament_ident |-> "255707037",
     table_name |-> "179", limit |-> "NL", game |-> game,
     sb |-> "10", bb |-> "20", date |-> "13:26:50 ET - 2013/09/22"]

\* `not elem` of the list comprehension: only the empty string is falsy
IsEmpty(f) == f.k = "empty"
\* elem == street.upper(), the comparison list.index makes
IsMarker(f, m) == f.k = "text" /\ f.text = m

-----------------------------------------------------------------------------
(* Python list operations on TLA+ sequences; Python indices are 0-based *)

Min(a, b) == IF a < b THEN a ELSE b

\* seq[i]: a negative i counts from the end; InRange is false where Python
\* raises IndexError
PyPos(seq, i) == IF i < 0 THEN i + Len(seq) ELSE i
InRange(seq, i) == PyPos(seq, i) >= 0 /\ PyPos(seq, i) < Len(seq)
PyGet(seq, i) == seq[PyPos(seq, i) + 1]

\* seq[i] = x
PySet(seq, i, x) == [seq EXCEPT ![PyPos(seq, i) + 1] = x]

\* seq[start:stop] for start, stop >= 0: both ends are clipped to the list
PySlice(seq, start, stop) ==
    LET lo == Min(start, Len(seq))
        hi == Min(stop, Len(seq))
    IN  IF hi <= lo THEN <<>> ELSE SubSeq(seq, lo + 1, hi)

\* seq.index(marker, start): the first position >= start holding the text
\* marker, or -1 where Python raises ValueError
IndexOfText(seq, marker, start) ==
    LET hits == {i \in start .. Len(seq) - 1 : IsMarker(seq[i + 1], marker)}
    IN  IF hits = {} THEN -1 ELSE CHOOSE i \in hits : \A j \in hits : i <= j

\* seq.index('', start)
IndexOfEmpty(seq, start) ==
    LET hits == {i \in start .. Len(seq) - 1 : IsEmpty(seq[i + 1])}
    IN  IF hits = {} THEN -1 ELSE CHOOSE i \in hits : \A j \in hits : i <= j

\* [ind for ind, elem in enumerate(self._splitted) if not elem]
RECURSIVE SectionsFrom(_, _)
SectionsFrom(seq, i) ==
    IF i >= Len(seq) THEN <<>>
    ELSE (IF IsEmpty(seq[i + 1]) THEN <<i>> ELSE <<>>) \o SectionsFrom(seq, i + 1)

SectionsOf(seq) == SectionsFrom(seq, 0)

-----------------------------------------------------------------------------
(* Conversions of captured strings *)

\* int(match.group(1)) of a group captured by (\d)
IntOfDigit(d) ==
    CASE d = "0" -> 0 [] d = "1" -> 1 [] d = "2" -> 2 [] d = "3" -> 3
      [] d = "4" -> 4 [] d = "5" -> 5 [] d = "6" -> 6 [] d = "7" -> 7
      [] d = "8" -> 8 [] d = "9" -> 9

\* match.group(3).replace(',', '')
StripCommas(s) ==
    CASE s = "1,500" -> "1500"
      [] s = "13,587" -> "13587"
      [] OTHER -> s

\* int(s) of a string of digits; -1 where Python raises ValueError (int(''))
IntOfDigits(s) ==
    CASE s = "1500" -> 1500
      [] s = "13587" -> 13587
      [] s = "20" -> 20
      [] OTHER -> -1

\* Decimal(s) of a string of digits; -1 where Python raises InvalidOperation
\* (Decimal(''), Decimal('abc')), which is not a ValueError
DecimalOf(s) ==
    CASE s = "10" -> 10
      [] s = "20" -> 20
      [] s = "230" -> 230
      [] s = "460" -> 460
      [] s = "920" -> 920
      [] OTHER -> -1

\* cards.split()
SplitCards(s) ==
    CASE s = "8h 4h Tc" -> <<"8h", "4h", "Tc">>
      [] s = "Kc" -> <<"Kc">>
      [] s = "2s" -> <<"2s">>
      [] s = "" -> <<>>

\* GAMES[name] of handparser.common, or "KeyError"
GamesLookup(name) ==
    CASE name = "Hold'em" -> "HOLDEM"
      [] name = "Omaha" -> "OMAHA"
      [] OTHER -> "KeyError"

\* ET.localize(datetime.strptime(s, date_format)).astimezone(UTC)
ToUTC(s) ==
    CASE s = "13:26:50 ET - 2013/09/22" -> "2013-09-22 17:26:50 UTC"

\* 'Empty Seat %s' % num
EmptySeatName(num) ==
    <<"Empty Seat 1", "Empty Seat 2", "Empty Seat 3", "Empty Seat 4", "Empty Seat 5",
      "Empty Seat 6", "Empty Seat 7", "Empty Seat 8", "Empty Seat 9">>[num]

-----------------------------------------------------------------------------
(* Bounds of the inputs *)

MaxSeatLines == 3       \* seat lines in a seat block
MaxActs == 2            \* action lines in the preflop section and per street

-----------------------------------------------------------------------------
(* The hand texts parsed, as fragment lists *)

SeatDigits == {"0", "1", "2", "3"}
ButtonDigits == {"0", "1", "2", "3", "9"}
Names == {"Alice", "Bob"}
Heroes == {"Alice", "Bob", "Carol"}

GoodHeader == HeaderLine("Hold'em")
PostLine == Text("Bob posts the small blind of 10")
NoButtonLine == Text("Alice posts the big blind of 20")
HoleMarker == Text("HOLE CARDS")
BadBoard == Text("[8h 4h Tc] Total Pot 230")
SummaryTail == <<Empty, Text("SUMMARY"), Text("Total pot 920")>>

StdBlock == <<SeatLine("1", "Alice", "1,500"), SeatLine("2", "Bob", "13,587")>>
StdDealt == DealtLine("Alice", "9d", "Ks")

BoardOf(street) ==
    CASE street = "flop" -> BoardLine("8h 4h Tc", "230", "2")
      [] street = "turn" -> BoardLine("Kc", "460", "2")
      [] street = "river" -> BoardLine("2s", "920", "2")

\* a board line whose pot group (\d*) is empty
NoPotBoard == BoardLine("Kc", "", "2")

SeqsUpTo(S, n) == UNION {[1 .. m -> S] : m \in 0 .. n}

ActSeq(n) == [i \in 1 .. n |-> Text(IF i % 2 = 1 THEN "Bob checks" ELSE "Alice bets 40")]

SeatLines == {SeatLine(d, nm, "1,500") : d \in SeatDigits, nm \in Names}
SeatBlocks == SeqsUpTo(SeatLines, MaxSeatLines)
ButtonLines == {ButtonLine(d) : d \in ButtonDigits} \cup {NoButtonLine}
PreLines == {Text("Bob folds"), Text("Alice raises to 40")}

\* what a text holds for one street: nothing, the marker alone, or the
\* marker, a line after it, and action lines
Chunks(street) ==
    {<<>>, <<Empty, Text(Upper(street))>>}
    \cup {<<Empty, Text(Upper(street)), bl>> \o ActSeq(n) :
            bl \in {BoardOf(street), BadBoard, NoPotBoard}, n \in 0 .. MaxActs}

StdStreets == <<Empty, Text("FLOP"), BoardOf("flop"), Text("Bob checks")>> \o SummaryTail

\* the button line and the hero of a text: one of them varies
ButtonAndHero ==
    {<<b, "Alice">> : b \in ButtonLines} \cup {<<ButtonLine("1"), h>> : h \in Heroes}

\* texts that differ in the seat block, the button line and the hero
SeatTexts ==
    {<<GoodHeader>> \o block \o <<PostLine, bh[1], Empty, HoleMarker,
                                   DealtLine(bh[2], "9d", "Ks"), Text("Bob folds")>>
        \o StdStreets :
        block \in SeatBlocks, bh \in ButtonAndHero}

\* texts that differ in the preflop section
PreflopTexts ==
    {<<GoodHeader>> \o StdBlock \o <<PostLine, ButtonLine("1"), Empty, x, StdDealt>>
        \o pre \o tail :
        x \in {HoleMarker, Empty}, pre \in SeqsUpTo(PreLines, MaxActs),
        tail \in {<<>>, SummaryTail, StdStreets}}

\* texts that differ in the streets
StreetTexts ==
    {<<GoodHeader>> \o StdBlock \o <<PostLine, ButtonLine("1"), Empty, HoleMarker,
                                     StdDealt, Text("Bob calls 20")>>
        \o c1 \o c2 \o c3 \o tail :
        c1 \in Chunks("flop"), c2 \in Chunks("turn"), c3 \in Chunks("river"),
        tail \in {<<>>, SummaryTail}}

\* texts with a bad header, a bad stack, a missing hole-cards line or no
\* section boundary
OddTexts ==
    {<<h>> \o StdBlock \o <<PostLine, ButtonLine("1"), Empty, HoleMarker, StdDealt>>
        \o StdStreets : h \in {Text("Full Tilt Poker 33286946295"), HeaderLine("Razz")}}
    \cup {<<GoodHeader, SeatLine("1", "Alice", ""), ButtonLine("1"), Empty, HoleMarker,
            StdDealt>> \o StdStreets,
          <<GoodHeader>> \o StdBlock \o <<ButtonLine("1")>>,
          <<GoodHeader>> \o StdBlock \o <<ButtonLine("1"), Empty, HoleMarker>>,
          <<GoodHeader>> \o StdBlock \o <<ButtonLine("1"), Empty, HoleMarker,
                                          Text("Dealt to nobody")>> \o StdStreets}

Inputs == SeatTexts \cup PreflopTexts \cup StreetTexts \cup OddTexts

-----------------------------------------------------------------------------
(* _parse_seats *)

TableSize == 9

\* [('Empty Seat %s' % num, 0) for num in range(1, 10)]
InitialPlayers == [num \in 1 .. TableSize |-> <<EmptySeatName(num), 0>>]

\* the for loop over self._splitted[1:], from the line at index i on, with
\* the list players and the local seat_number as they stand: ends at the
\* first line the seat pattern does not match, at the end of the list, or
\* at int('') raising ValueError
RECURSIVE SeatLoop(_, _, _, _)
SeatLoop(lines, i, plist, seat_number) ==
    IF i >= Len(lines) \/ lines[i + 1].k # "seat"
    THEN [players |-> plist, seat_number |-> seat_number, err |-> "none"]
    ELSE LET line == lines[i + 1]
             n == IntOfDigit(line.seat)
             stack == IntOfDigits(StripCommas(line.stack))
         IN  IF stack < 0
             THEN [players |-> plist, seat_number |-> Val(n), err |-> "ValueError"]
             ELSE SeatLoop(lines, i + 1, PySet(plist, n - 1, <<line.name, stack>>), Val(n))

\* self.max_players = seat_number: the local as the loop left it
MaxPlayersOf(loop) == loop.seat_number

\* OrderedDict(players): a key met again keeps its place and takes the new
\* value
RECURSIVE OrderedDictOf(_, _)
OrderedDictOf(pairs, od) ==
    IF pairs = <<>> THEN od
    ELSE LET kv == Head(pairs)
             at == {i \in 1 .. Len(od) : od[i][1] = kv[1]}
         IN  OrderedDictOf(Tail(pairs),
                 IF at = {} THEN Append(od, kv)
                 ELSE [j \in 1 .. Len(od) |-> IF j \in at THEN kv ELSE od[j]])

\* self.players.keys().index(name), or -1 where list.index raises ValueError
KeysIndex(od, name) ==
    LET at == {i \in 1 .. Len(od) : od[i][1] = name}
    IN  IF at = {} THEN -1 ELSE (CHOOSE i \in at : \A j \in at : i <= j) - 1

-----------------------------------------------------------------------------
(* The state after FullTiltHand.__init__ has split the text, before parse() *)

HeaderFields ==
    {"sb", "bb", "date", "game", "limit", "ident", "tournament_ident",
     "tournament_name", "table_name", "tournament_level", "buyin", "rake", "currency"}

inp_vars == <<splitted, sections>>
hdr_vars == <<game_type, header, header_parsed>>
seat_vars == <<max_players, players, button_seat, button>>
hole_vars == <<hero, hero_seat, hero_hole_cards>>
street_vars == <<street_cards, street_actions, street_pot, street_num_players>>
suit_vars == <<suit_in, suit_out>>

NoStreet == [s \in StreetNames |-> Unset]

Constructed(text) ==
    /\ splitted = text
    /\ sections = SectionsOf(text)
    /\ pc = "header"
    /\ err = "none"
    /\ game_type = Unset
    /\ header = [f \in HeaderFields |-> Unset]
    /\ header_parsed = FALSE
    /\ max_players = Unset /\ players = Unset
    /\ button_seat = Unset /\ button = Unset
    /\ hero = Unset /\ hero_seat = Unset /\ hero_hole_cards = Unset
    /\ preflop_actions = Unset
    /\ street_cards = NoStreet /\ street_actions = NoStreet
    /\ street_pot = NoStreet /\ street_num_players = NoStreet

NoSuit ==
    /\ suit_in = <<>>
    /\ suit_out = <<>>

Init ==
    /\ \E text \in Inputs : Constructed(text)
    /\ NoSuit

\* an exception leaves parse() and the constructor
Raise(e) ==
    /\ pc' = "failed"
    /\ err' = e

-----------------------------------------------------------------------------
(* PokerHand.parse and parse_header *)

\* parse_header on segment 0: the attributes it has assigned when it
\* returns or raises, and the exception ("none" when it returns)
HeaderOutcome(line, hdr) ==
    LET tour == Val("TOUR")
        h1 == [hdr EXCEPT !["sb"] = Val(DecimalOf(line.sb))]
        h2 == [h1 EXCEPT !["bb"] = Val(DecimalOf(line.bb))]
        h3 == [h2 EXCEPT !["date"] = Val(ToUTC(line.date))]
        h4 == [h3 EXCEPT !["game"] = Val(GamesLookup(line.game)),
                         !["limit"] = Val(line.limit),
                         !["ident"] = Val(line.ident),
                         !["tournament_ident"] = Val(line.tournament_ident),
                         !["tournament_name"] = Val(line.tournament_name),
                         !["table_name"] = Val(line.table_name),
                         !["tournament_level"] = None,
                         !["buyin"] = None,
                         !["rake"] = None,
                         !["currency"] = None]
    IN  IF line.k # "header"
        THEN [game_type |-> tour, header |-> hdr, parsed |-> FALSE,
              err |-> "AttributeError"]
        ELSE IF DecimalOf(line.sb) < 0
        THEN [game_type |-> tour, header |-> hdr, parsed |-> FALSE,
              err |-> "InvalidOperation"]
        ELSE IF DecimalOf(line.bb) < 0
        THEN [game_type |-> tour, header |-> h1, parsed |-> FALSE,
              err |-> "InvalidOperation"]
        ELSE IF GamesLookup(line.game) = "KeyError"
        THEN [game_type |-> tour, header |-> h3, parsed |-> FALSE, err |-> "KeyError"]
        ELSE [game_type |-> tour, header |-> h4, parsed |-> TRUE, err |-> "none"]

\* PokerHand.parse: the header is parsed first if it is not parsed yet
NeedsHeader(parsed) == ~parsed

\* super().parse(), the first statement of parse()
ParseHeader ==
    /\ pc = "header"
    /\ IF ~NeedsHeader(header_parsed)
       THEN /\ pc' = "seats"
            /\ UNCHANGED <<err, hdr_vars>>
       ELSE LET out == HeaderOutcome(splitted[1], header)
            IN  /\ game_type' = out.game_type
                /\ header' = out.header
                /\ header_parsed' = out.parsed
                /\ IF out.err = "none"
                   THEN pc' = "seats" /\ err' = err
                   ELSE Raise(out.err)
    /\ UNCHANGED <<inp_vars, seat_vars, hole_vars, preflop_actions, street_vars, suit_vars>>

-----------------------------------------------------------------------------
(* parse(): the seats, the hole cards, the preflop actions *)

ParseSeats ==
    /\ pc = "seats"
    /\ LET loop == SeatLoop(splitted, 1, InitialPlayers, Unset)
           line == PyGet(splitted, PyGet(sections, 0) - 1)
           seat == IntOfDigit(line.seat)
       IN  IF loop.err # "none"
           THEN Raise(loop.err) /\ UNCHANGED seat_vars
           ELSE IF MaxPlayersOf(loop) = Unset
           THEN Raise("UnboundLocalError") /\ UNCHANGED seat_vars
           ELSE /\ max_players' = MaxPlayersOf(loop)
                /\ players' = Val(OrderedDictOf(loop.players, <<>>))
                /\ IF ~InRange(sections, 0)
                   THEN Raise("IndexError") /\ UNCHANGED <<button_seat, button>>
                   ELSE IF line.k # "button"
                   THEN Raise("AttributeError") /\ UNCHANGED <<button_seat, button>>
                   ELSE /\ button_seat' = Val(seat)
                        /\ button' = Val(PyGet(loop.players, seat - 1)[1])
                        /\ pc' = "hole"
                        /\ err' = err
    /\ UNCHANGED <<inp_vars, hdr_vars, hole_vars, preflop_actions, street_vars, suit_vars>>

ParseHoleCards ==
    /\ pc = "hole"
    /\ LET at == PyGet(sections, 0) + 2
           line == PyGet(splitted, at)
           ki == KeysIndex(players.v, line.name)
       IN  IF ~InRange(splitted, at)
           THEN Raise("IndexError") /\ UNCHANGED hole_vars
           ELSE IF line.k # "dealt"
           THEN Raise("AttributeError") /\ UNCHANGED hole_vars
           ELSE /\ hero' = Val(line.name)
                /\ IF ki < 0
                   THEN Raise("ValueError") /\ UNCHANGED <<hero_seat, hero_hole_cards>>
                   ELSE /\ hero_seat' = Val(ki + 1)
                        /\ hero_hole_cards' = Val(<<line.c1, line.c2>>)
                        /\ pc' = "preflop"
                        /\ err' = err
    /\ UNCHANGED <<inp_vars, hdr_vars, seat_vars, preflop_actions, street_vars, suit_vars>>

\* a start one line early, at the hole-cards line
PreflopStartAtHoleCards(secs) == PyGet(secs, 0) + 2

\* start = self._sections[0] + 3
PreflopStart(secs) == PyGet(secs, 0) + 3
\* stop = self._sections[1]
PreflopStop(secs) == PyGet(secs, 1)

ParsePreflop ==
    /\ pc = "preflop"
    /\ IF ~InRange(sections, 1)
       THEN Raise("IndexError") /\ UNCHANGED preflop_actions
       ELSE /\ preflop_actions' =
                  Val(PySlice(splitted, PreflopStart(sections), PreflopStop(sections)))
            /\ pc' = "flop"
            /\ err' = err
    /\ UNCHANGED <<inp_vars, hdr_vars, seat_vars, hole_vars, street_vars, suit_vars>>

-----------------------------------------------------------------------------
(* _parse_street and _parse_boardline *)

\* tuple(street_actions), whether or not there is an action line
StoredActionsAlways(acts) == Val(acts)

\* tuple(street_actions) if street_actions else None
StoredActions(acts) == IF acts # <<>> THEN Val(acts) ELSE None

\* _parse_street(street): the four attributes of the street as it leaves
\* them, and the exception that leaves it ("none" when it returns).  Only a
\* ValueError is caught; c, a, p, n are the attributes before the call.
StreetOutcome(lines, street, c, a, p, n) ==
    LET absent == [cards |-> None, actions |-> None, pot |-> None,
                   num_players |-> None, err |-> "none"]
        marker == IndexOfText(lines, Upper(street), 0)
        start == marker + 1
        board_line == PyGet(lines, start)
        cards == Val(SplitCards(board_line.cards))
        pot == DecimalOf(board_line.pot)
        num == Val(IntOfDigit(board_line.n))
        stop == IndexOfEmpty(lines, start + 1)
    IN  IF marker < 0 THEN absent
        ELSE IF ~InRange(lines, start)
        THEN [cards |-> c, actions |-> a, pot |-> p, num_players |-> n,
              err |-> "IndexError"]
        ELSE IF board_line.k # "board"
        THEN [cards |-> c, actions |-> a, pot |-> p, num_players |-> n,
              err |-> "AttributeError"]
        ELSE IF pot < 0
        THEN [cards |-> cards, actions |-> a, pot |-> p, num_players |-> n,
              err |-> "InvalidOperation"]
        ELSE IF stop < 0 THEN absent
        ELSE [cards |-> cards,
              actions |-> StoredActions(PySlice(lines, start + 1, stop)),
              pot |-> Val(pot), num_players |-> num, err |-> "none"]

ParseStreet(street, next) ==
    /\ pc = street
    /\ LET out == StreetOutcome(splitted, street, street_cards[street],
                                street_actions[street], street_pot[street],
                                street_num_players[street])
       IN  /\ street_cards' = [street_cards EXCEPT ![street] = out.cards]
           /\ street_actions' = [street_actions EXCEPT ![street] = out.actions]
           /\ street_pot' = [street_pot EXCEPT ![street] = out.pot]
           /\ street_num_players' = [street_num_players EXCEPT ![street] = out.num_players]
           /\ IF out.err = "none"
              THEN pc' = next /\ err' = err
              ELSE Raise(out.err)
    /\ UNCHANGED <<inp_vars, hdr_vars, seat_vars, hole_vars, preflop_actions, suit_vars>>

ParseFlop == ParseStreet("flop", "turn")
ParseTurn == ParseStreet("turn", "river")
ParseRiver == ParseStreet("river", "done")

Next ==
    \/ ParseHeader
    \/ ParseSeats
    \/ ParseHoleCards
    \/ ParsePreflop
    \/ ParseFlop
    \/ ParseTurn
    \/ ParseRiver

Spec == Init /\ [][Next]_vars

-----------------------------------------------------------------------------
(* Suit, as tests/test_suit.py uses it.  A glyph is written by its code    *)
(* point: U+2663 clubs, U+2666 diamonds, U+2665 hearts, U+2660 spades.     *)

SuitInputs ==
    {"c", "d", "h", "s", "C", "D", "H", "S", "U+2663", "U+2666", "U+2665", "U+2660", "k"}

\* the members in definition order: list(Suit)
SuitMembers == <<"CLUBS", "DIAMONDS", "HEARTS", "SPADES">>

\* the values a member is constructed from
SuitValues(member) ==
    CASE member = "CLUBS" -> {"U+2663", "c"}
      [] member = "DIAMONDS" -> {"U+2666", "d"}
      [] member = "HEARTS" -> {"U+2665", "h"}
      [] member = "SPADES" -> {"U+2660", "s"}

\* a constructor that folds nothing: upper-case letters name no suit
SuitFoldNothing(x) == x

\* the case folding of the constructor
SuitFold(x) ==
    CASE x = "C" -> "c" [] x = "D" -> "d" [] x = "H" -> "h" [] x = "S" -> "s"
      [] OTHER -> x

\* Suit(x): the position in SuitMembers of the one shared member object x
\* names, or 0 where the constructor raises ValueError
SuitNew(x) ==
    LET at == {i \in 1 .. Len(SuitMembers) : SuitFold(x) \in SuitValues(SuitMembers[i])}
    IN  IF at = {} THEN 0 ELSE CHOOSE i \in at : TRUE

\* a < b: by the members' definition order
SuitLess(a, b) == a < b

\* hash(a): of the member object
SuitHash(a) == SuitMembers[a]

\* construct Suit(a) and Suit(b), and compare them both ways
SuitCompare(a, b) ==
    /\ suit_in' = <<a, b>>
    /\ suit_out' =
          IF SuitNew(a) = 0 \/ SuitNew(b) = 0
          THEN [err |-> "ValueError"]
          ELSE [err |-> "none", x |-> SuitNew(a), y |-> SuitNew(b),
                lt |-> SuitLess(SuitNew(a), SuitNew(b)),
                gt |-> SuitLess(SuitNew(b), SuitNew(a)),
                is |-> SuitNew(a) = SuitNew(b),
                hash_eq |-> SuitHash(SuitNew(a)) = SuitHash(SuitNew(b))]
    /\ UNCHANGED parser_vars

SuitInit ==
    /\ Constructed(<<GoodHeader>> \o StdBlock \o <<PostLine, ButtonLine("1"), Empty,
                     HoleMarker, StdDealt>> \o StdStreets)
    /\ NoSuit

SuitNext == \E a, b \in SuitInputs : SuitCompare(a, b)

SuitSpec == SuitInit /\ [][SuitNext]_vars

-----------------------------------------------------------------------------
(* What the text holds, read off the fragments *)

\* the number of consecutive seat lines from fragment 1 on
RECURSIVE BlockLen(_, _)
BlockLen(lines, i) ==
    IF i >= Len(lines) \/ lines[i + 1].k # "seat" THEN 0 ELSE 1 + BlockLen(lines, i + 1)

\* the seat lines of the block, in text order
SeatBlock == SubSeq(splitted, 2, 1 + BlockLen(splitted, 1))

DeclaredSeats == {IntOfDigit(SeatBlock[i].seat) : i \in 1 .. Len(SeatBlock)}

Highest(S) == CHOOSE n \in S : \A m \in S : m <= n

\* the lines of the block that declare seat k
LinesFor(k) == {i \in 1 .. Len(SeatBlock) : IntOfDigit(SeatBlock[i].seat) = k}

\* the (name, stack) the text declares for seat k: that of the last seat
\* line for k, or the placeholder
DeclaredEntry(k) ==
    IF LinesFor(k) = {} THEN <<EmptySeatName(k), 0>>
    ELSE LET i == Highest(LinesFor(k))
         IN  <<SeatBlock[i].name, IntOfDigits(StripCommas(SeatBlock[i].stack))>>

\* the name the seat loop left in the list for seat k
RecordedName(k) == SeatLoop(splitted, 1, InitialPlayers, Unset).players[k][1]

MarkerPresent(street) == \E i \in 1 .. Len(splitted) : IsMarker(splitted[i], Upper(street))

\* _parse_street(street) has returned (it assigns the actions on every
\* path that returns, and on no path that raises)
Returned(street) == street_actions[street] # Unset

AllAbsent(street) ==
    /\ street_cards[street] = None
    /\ street_actions[street] = None
    /\ street_pot[street] = None
    /\ street_num_players[street] = None

\* the marker is there, the line after it is a board line the pattern and
\* the conversions accept, and the fragment after the board line is a
\* section boundary: the street was reached and has no action line
ZeroActions(street) ==
    \E i \in 1 .. Len(splitted) - 2 :
        /\ IsMarker(splitted[i], Upper(street))
        /\ \A j \in 1 .. i - 1 : ~IsMarker(splitted[j], Upper(street))
        /\ splitted[i + 1].k = "board"
        /\ DecimalOf(splitted[i + 1].pot) >= 0
        /\ IsEmpty(splitted[i + 2])

-----------------------------------------------------------------------------
(* The claims *)

\* C1: when parse() completes, the absent streets among flop, turn, river
\* form an unbroken suffix, and a text without a TURN marker has an absent
\* river.
C1_AbsentSuffix ==
    pc = "done" =>
        /\ street_cards["flop"] = None => AllAbsent("turn") /\ AllAbsent("river")
        /\ street_cards["turn"] = None => AllAbsent("river")
        /\ ~MarkerPresent("turn") => AllAbsent("river")

\* C2 as stated: a street reached with zero action lines gets an actions
\* value other than the one a street not reached gets (None).
C2_EmptyActionsDistinct ==
    \A s \in StreetNames :
        Returned(s) /\ ZeroActions(s) => street_actions[s] # None

\* C2 amended: a street reached with zero action lines gets the actions
\* value None, the same as a street not reached; its cards, pot and player
\* count are values, where a street whose marker is missing has all four
\* None.
C2_EmptyActionsNone ==
    \A s \in StreetNames :
        /\ Returned(s) /\ ZeroActions(s) =>
              /\ street_actions[s] = None
              /\ IsVal(street_cards[s])
              /\ IsVal(street_pot[s])
              /\ IsVal(street_num_players[s])
        /\ Returned(s) /\ ~MarkerPresent(s) => AllAbsent(s)

C2_Witness ==
    /\ pc = "done"
    /\ Returned("turn") /\ ZeroActions("turn")
    /\ Returned("river") /\ ~MarkerPresent("river")

\* C3: once _parse_seats has read the seat block, max_players is the
\* highest seat number the block declares, in whatever order its lines come.
C3_MaxPlayersHighest ==
    IsVal(max_players) => max_players.v = Highest(DeclaredSeats)

\* C4: a hero whose name the seat lines for seat k carry, and no other seat
\* line, gets hero_seat = k with the name and the two cards of the
\* hole-cards line, whatever the other seat lines hold (seat numbers 1..9);
\* a hero whose name is not in the seat mapping gets no hero_seat and the
\* parse fails.
C4_HeroSeat ==
    /\ IsVal(hero_seat) =>
          /\ hero = Val(PyGet(splitted, PyGet(sections, 0) + 2).name)
          /\ hero_hole_cards = Val(<<PyGet(splitted, PyGet(sections, 0) + 2).c1,
                                     PyGet(splitted, PyGet(sections, 0) + 2).c2>>)
          /\ \A k \in 1 .. TableSize :
                (/\ LinesFor(k) # {}
                 /\ \A i \in 1 .. Len(SeatBlock) :
                        SeatBlock[i].name = hero.v <=> i \in LinesFor(k)
                 /\ SeatBlock[Highest(LinesFor(k))].name = hero.v)
                => hero_seat.v = k
    /\ (IsVal(hero) /\ KeysIndex(players.v, hero.v) < 0) =>
          hero_seat = Unset /\ pc = "failed"

\* C5: when segment 0 does not match the header pattern the parse fails
\* with no header field set, header_parsed not set, and no later step run.
C5_NoHeaderFieldSet ==
    (splitted[1].k # "header" /\ pc # "header") =>
        /\ pc = "failed"
        /\ game_type = Unset
        /\ \A f \in HeaderFields : header[f] = Unset
        /\ ~header_parsed
        /\ max_players = Unset /\ hero = Unset /\ preflop_actions = Unset
        /\ \A s \in StreetNames : street_cards[s] = Unset

\* C6: the player mapping has one entry per seat 1..9 in seat order, the
\* k-th being what the text declares for seat k or the placeholder.
C6_OneEntryPerSeat ==
    IsVal(players) =>
        /\ Len(players.v) = TableSize
        /\ \A k \in 1 .. TableSize :
              k <= Len(players.v) => players.v[k] = DeclaredEntry(k)

\* C7: when _parse_seats completes, 1 <= button_seat <= max_players and
\* button is the name recorded for that seat; a line that is no button line
\* gives no button.
C7_ButtonInRange ==
    /\ IsVal(button_seat) =>
          /\ 1 <= button_seat.v
          /\ button_seat.v <= max_players.v
          /\ button.v = RecordedName(button_seat.v)
    /\ (pc \notin {"header", "seats"} /\ InRange(sections, 0)
        /\ PyGet(splitted, PyGet(sections, 0) - 1).k # "button") =>
          button = Unset /\ (IsVal(max_players) => pc = "failed")


\* the suit an input names, and the suits in their order
SuitNamed(x) ==
    CASE x \in {"c", "C", "U+2663"} -> "clubs"
      [] x \in {"d", "D", "U+2666"} -> "diamonds"
      [] x \in {"h", "H", "U+2665"} -> "hearts"
      [] x \in {"s", "S", "U+2660"} -> "spades"
      [] OTHER -> "none"

SuitRank(name) ==
    CHOOSE i \in 1 .. 4 : <<"clubs", "diamonds", "hearts", "spades">>[i] = name

\* C8: for valid inputs a, b, Suit(a) < Suit(b) exactly when a's suit comes
\* before b's in clubs, diamonds, hearts, spades; Suit(a) is Suit(b), with
\* equal hash, exactly when they name the same suit; exactly one of <, >,
\* is holds.
C8_SuitOrder ==
    (suit_in # <<>> /\ SuitNamed(suit_in[1]) # "none" /\ SuitNamed(suit_in[2]) # "none") =>
        LET ra == SuitRank(SuitNamed(suit_in[1]))
            rb == SuitRank(SuitNamed(suit_in[2]))
        IN  /\ suit_out.err = "none"
            /\ suit_out.lt <=> ra < rb
            /\ suit_out.gt <=> rb < ra
            /\ suit_out.is <=> ra = rb
            /\ suit_out.hash_eq <=> ra = rb
            /\ Cardinality({f \in {"lt", "gt", "is"} : suit_out[f]}) = 1

C8_Witness ==
    /\ suit_in = <<"C", "U+2666">>
    /\ suit_out.err = "none"
    /\ suit_out.lt /\ ~suit_out.is

\* C9: a street whose marker is among the fragments never ends, without an
\* error, with its cards, pot, player count and actions all absent.
C9_MarkerNeverSilentlyAbsent ==
    \A s \in StreetNames :
        Returned(s) /\ MarkerPresent(s) => ~AllAbsent(s)

\* C10: preflop_actions is the fragments at positions sections[0]+3 up to
\* sections[1]-1 in order: from the one after the hole-cards line to the one
\* before the second boundary, none of them a boundary, and empty when
\* sections[1] <= sections[0]+3.
C10_PreflopSlice ==
    /\ IsVal(preflop_actions) =>
          LET first == sections[1] + 3
              last == sections[2] - 1
              got == preflop_actions.v
          IN  /\ Len(sections) >= 2
              /\ Len(got) = (IF last >= first THEN last - first + 1 ELSE 0)
              /\ \A i \in 1 .. Len(got) :
                    got[i] = splitted[first + i] /\ ~IsEmpty(got[i])
              /\ sections[2] <= sections[1] + 3 => got = <<>>
              /\ got # <<>> =>
                    /\ got[1] = splitted[(sections[1] + 2) + 2]
                    /\ got[Len(got)] = splitted[sections[2]]
    /\ (pc \in {"flop", "turn", "river", "done"}) => IsVal(preflop_actions)

C10_Witness ==
    /\ IsVal(preflop_actions)
    /\ Len(preflop_actions.v) >= 2
    /\ preflop_actions.v[1] # preflop_actions.v[2]

=============================================================================
